---- MODULE Spec2Model ----
(***************************************************************************)
(* Request orchestration of the Shov SDK: Shov.request (deduplication,     *)
(* WebSocket first, read cache, HTTP/3, pooled fetch, cache invalidation)  *)
(* on top of the ShovWebSocket connection manager (connect, pending        *)
(* registry, timers, reconnect, keep-alive).                               *)
(*                                                                         *)
(* JavaScript runs every handler to completion and drains the promise      *)
(* continuations (microtasks) before the next handler starts, so each      *)
(* action below is one handler together with the continuations of the      *)
(* promises it settles.                                                    *)
(***************************************************************************)
EXTENDS Integers, Sequences, FiniteSets, TLC

\* ------------------------------------------------------------------ bounds
MaxCalls == 2            \* Shov.request calls issued in one behaviour
MaxSocketCloses == 1     \* sockets that fail or close in one behaviour
\* The capacity of requestCache, 100 in the source (requestCache.size > 100),
\* scaled down so that few requests fill it.
MaxCacheSize == 2

\* ------------------------------------------------------- program constants
CACHE_TTL == 5000
requestTimeout == 30000
FETCH_TIMEOUT == 30000
maxReconnectAttempts == 10
reconnectDelay == 1000
maxReconnectDelay == 30000
KEEPALIVE_INTERVAL == 30000
PING_TIMEOUT == 60000
MaxBatchOperations == 50

\* ------------------------------------------------------------------ strings
\* Commands and names are character sequences, so that startsWith and
\* split('/') are computed on the characters as the code computes them.
sGet == <<"g", "e", "t">>
sSet == <<"s", "e", "t">>
sAdd == <<"a", "d", "d">>
sAddMany == <<"a", "d", "d", "-", "m", "a", "n", "y">>
sUpdate == <<"u", "p", "d", "a", "t", "e">>
sRemove == <<"r", "e", "m", "o", "v", "e">>
sClear == <<"c", "l", "e", "a", "r">>
sForget == <<"f", "o", "r", "g", "e", "t">>
sWhere == <<"w", "h", "e", "r", "e">>
sSearch == <<"s", "e", "a", "r", "c", "h">>
sCount == <<"c", "o", "u", "n", "t">>
sBatch == <<"b", "a", "t", "c", "h">>
sSlash == <<"/">>
Undefined == <<>>

StartsWith(s, p) == Len(p) <= Len(s) /\ SubSeq(s, 1, Len(p)) = p

\* Index of the first "/" of s at or after i, Len(s) + 1 when there is none.
RECURSIVE SlashFrom(_, _)
SlashFrom(s, i) ==
    IF i > Len(s) THEN Len(s) + 1
    ELSE IF s[i] = "/" THEN i
    ELSE SlashFrom(s, i + 1)

\* command.split('/')[0]
BaseCommand(command) == SubSeq(command, 1, SlashFrom(command, 1) - 1)

\* command.split('/')[1]: the second segment, Undefined when there is no "/".
PathParam(command) ==
    LET i == SlashFrom(command, 1)
    IN  IF i > Len(command) THEN Undefined
        ELSE SubSeq(command, i + 1, SlashFrom(command, i + 1) - 1)

\* (body as any).f: Undefined for a field the body does not have.
Field(body, f) == IF f \in DOMAIN body THEN body[f] ELSE Undefined

\* JavaScript truthiness of a string or undefined value.
Truthy(v) == v # Undefined

\* -------------------------------------------------------------- public API
Keys == {<<"k", "1">>}
Collections == {<<"c", "1">>}
Ids == {<<"i", "1">>}
\* The payload of the response to call c: the client never inspects a
\* payload, so one distinct token per response loses nothing.
Data(c) == <<"data", c>>
EmptyBody == [f \in {} |-> Undefined]

ApiSet(name, value) ==
    [command |-> sSet, body |-> [name |-> name, value |-> value], method |-> "POST"]
ApiGet(name) ==
    [command |-> sGet, body |-> [name |-> name], method |-> "POST"]
ApiAdd(collection, value) ==
    [command |-> sAdd, body |-> [name |-> collection, value |-> value], method |-> "POST"]
ApiAddMany(collection, items) ==
    [command |-> sAddMany, body |-> [name |-> collection, items |-> items], method |-> "POST"]
ApiWhere(collection) ==
    [command |-> sWhere, body |-> [name |-> collection], method |-> "POST"]
ApiCount(collection) ==
    [command |-> sCount, body |-> [name |-> collection], method |-> "POST"]
ApiUpdate(collection, id, value) ==
    [command |-> sUpdate \o sSlash \o id,
     body |-> [collection |-> collection, value |-> value], method |-> "POST"]
ApiRemove(collection, id) ==
    [command |-> sRemove \o sSlash \o id,
     body |-> [collection |-> collection], method |-> "POST"]
ApiClear(collection) ==
    [command |-> sClear, body |-> [name |-> collection], method |-> "POST"]
ApiForget(key) ==
    [command |-> sForget \o sSlash \o key, body |-> EmptyBody, method |-> "DELETE"]
\* The request Shov.batch issues for a list of operations it accepted.
ApiBatch(operations) ==
    [command |-> sBatch, body |-> [operations |-> operations], method |-> "POST"]

\* The argument of Shov.batch: an array of operations, or a value that is
\* not an array.
Array(items) == [isArray |-> TRUE, items |-> items]
NotAnArray == [isArray |-> FALSE, items |-> <<>>]
\* No argument: the call is not a call of Shov.batch.
NoArgument == [isArray |-> FALSE, items |-> <<"none">>]

SetOperation(key) == [type |-> sSet, name |-> key, value |-> "v1"]
AddOperation(collection) == [type |-> sAdd, collection |-> collection, value |-> "v1"]

\* n times the operation op
RECURSIVE Repeat(_, _)
Repeat(op, n) == IF n = 0 THEN <<>> ELSE <<op>> \o Repeat(op, n - 1)

\* operations.length > 50, with the limit itself refused.
TooManyFromLimit(operations) == Len(operations) >= MaxBatchOperations

\* operations.length > 50
TooMany(operations) == Len(operations) > MaxBatchOperations

\* The requests the callers of the model issue.
Requests ==
    {ApiGet(k) : k \in Keys} \cup {ApiSet(k, "v1") : k \in Keys}
    \cup {ApiForget(k) : k \in Keys}
    \cup {ApiWhere(c) : c \in Collections}
    \cup {ApiAdd(c, "v1") : c \in Collections}
    \cup {ApiUpdate(c, i, "v1") : c \in Collections, i \in Ids}

\* ------------------------------------------------------------ request keys
RequestKey(r) == <<r.command, r.method, r.body>>
CacheKeyOf(command, body) == <<command, body>>
CacheKey(r) == CacheKeyOf(r.command, r.body)

ReadOps == {sGet, sWhere, sSearch, sCount}
WriteOps == {sSet, sAdd, sUpdate, sForget, sRemove, sClear, sBatch}
isReadOperation(command) == \E op \in ReadOps : StartsWith(command, op)
isWriteOperation(command) == \E op \in WriteOps : StartsWith(command, op)
\* Cacheable with every request eligible for the cache.
CacheableAlways(r) == TRUE

Cacheable(r) == isReadOperation(r.command) /\ r.method = "POST"

\* ------------------------------------------------------------ requestCache
\* A JavaScript Map: entries in insertion order, at most one per key.
RECURSIVE CacheIndex(_, _, _)
CacheIndex(cache, key, i) ==
    IF i > Len(cache) THEN 0
    ELSE IF cache[i].key = key THEN i
    ELSE CacheIndex(cache, key, i + 1)

CacheHas(cache, key) == CacheIndex(cache, key, 1) # 0
CacheEntry(cache, key) == cache[CacheIndex(cache, key, 1)]

\* Map.delete
CacheDelete(cache, key) ==
    LET i == CacheIndex(cache, key, 1)
    IN  IF i = 0 THEN cache
        ELSE SubSeq(cache, 1, i - 1) \o SubSeq(cache, i + 1, Len(cache))

\* Map.set with timestamp Date.now(): an existing key keeps its position.
CacheSet(cache, key, data) ==
    LET i == CacheIndex(cache, key, 1)
        e == [key |-> key, data |-> data, age |-> 0]
    IN  IF i = 0 THEN Append(cache, e) ELSE [cache EXCEPT ![i] = e]

\* EvictOldest with nothing removed.
EvictNone(cache) == cache

\* if (size > 100) delete(keys().next().value)
EvictOldest(cache) ==
    IF Len(cache) > MaxCacheSize THEN Tail(cache) ELSE cache

CachePut(cache, key, data) == EvictOldest(CacheSet(cache, key, data))

\* CacheFresh without the test of the entry's age.
CacheFreshAlways(cache, key) == CacheHas(cache, key)

\* CacheFresh with the freshness test reversed (an entry counts as fresh only
\* once it has expired).
CacheFreshReversed(cache, key) ==
    CacheHas(cache, key) /\ CacheEntry(cache, key).age >= CACHE_TTL

\* cached && Date.now() - cached.timestamp < CACHE_TTL
CacheFresh(cache, key) ==
    CacheHas(cache, key) /\ CacheEntry(cache, key).age < CACHE_TTL

\* --------------------------------------------------------- invalidateCache
InvalidateKey(cache, command, body) ==
    LET baseCommand == BaseCommand(command)
        pathParam == PathParam(command)
        keyName == IF Truthy(pathParam) THEN pathParam ELSE Field(body, "name")
    IN  IF baseCommand \in {sSet, sForget} /\ Truthy(keyName)
        THEN CacheDelete(cache, CacheKeyOf(sGet, [name |-> keyName]))
        ELSE cache

InvalidateCollection(cache, command, body) ==
    IF BaseCommand(command) \in {sAdd, sUpdate, sRemove, sClear}
       /\ Truthy(Field(body, "collection"))
    THEN <<>>
    ELSE cache

\* For a batch, invalidateCache(op.type, op) for each of its operations in
\* turn: the operations of the first half of the list, then those of the
\* second half (the order of the loop, evaluated with a shallow recursion).
RECURSIVE invalidateCache(_, _, _)
RECURSIVE InvalidateOperations(_, _)
InvalidateOperations(cache, operations) ==
    IF operations = <<>> \/ cache = <<>> THEN cache   \* delete and clear on an empty Map
    ELSE IF Len(operations) = 1
    THEN invalidateCache(cache, operations[1].type, operations[1])
    ELSE LET half == Len(operations) \div 2
         IN  InvalidateOperations(
                 InvalidateOperations(cache, SubSeq(operations, 1, half)),
                 SubSeq(operations, half + 1, Len(operations)))

InvalidateBatch(cache, command, body) ==
    IF BaseCommand(command) = sBatch /\ "operations" \in DOMAIN body
    THEN InvalidateOperations(cache, body.operations)
    ELSE cache

invalidateCache(cache, command, body) ==
    InvalidateBatch(
        InvalidateCollection(InvalidateKey(cache, command, body), command, body),
        command, body)

\* ------------------------------------------------------------------- state
VARIABLES
    cfg,                \* wsClient / http3Client present (fixed by the constructor)
    calls,              \* the Shov.request calls: position, timer, outcome
    pendingRequests,    \* Shov.pendingRequests: requestKey -> promise
    requestCache,       \* Shov.requestCache
    lastRead,           \* history: cache key -> the last successful read still within
                        \* CACHE_TTL with no successful write after it
    ws,                 \* readyState of ShovWebSocket.ws
    isConnected,
    isConnecting,
    reconnectAttempts,
    messageQueue,
    wsPendingRequests,  \* ShovWebSocket.pendingRequests: the registered ids
    keepAlive,          \* keepAliveInterval: armed or not, time to the next check
    lastPingAge,        \* Date.now() - lastPingTime, capped
    openAge,            \* history: time since the current channel opened, capped
    reconnectTimers,    \* setTimeout(connect) timers not fired yet
    socketCloses,       \* sockets failed or closed so far (bounded by MaxSocketCloses)
    wire,               \* ids written to the current socket and not answered yet
    sentLog,            \* history: the ids written to the current socket, in order
    scheduledDelay,     \* history: the delay of the last setTimeout(connect), 0 if none
    closeCalled,        \* history: ShovWebSocket.close() has been called
    liveChannels,       \* history: sockets created and not closed yet
    wsTimers,           \* ids whose request timer (setTimeout) is armed
    invoked,            \* history: id -> calls of the entry's resolve or reject
    pendingAtDrop,      \* history: the ids registered when an unparseable message arrived
    pongsSent           \* history: the pongs written to the socket for the latest ping

shovVars == <<cfg, calls, pendingRequests, requestCache, lastRead>>
wsVars == <<ws, isConnected, isConnecting, reconnectAttempts, messageQueue,
            wsPendingRequests, keepAlive, lastPingAge, openAge, reconnectTimers,
            socketCloses, wire, sentLog, scheduledDelay, closeCalled,
            liveChannels, wsTimers, invoked, pendingAtDrop, pongsSent>>
vars == <<cfg, calls, pendingRequests, requestCache, lastRead, ws, isConnected, isConnecting,
          reconnectAttempts, messageQueue, wsPendingRequests, keepAlive,
          lastPingAge, openAge, reconnectTimers, socketCloses, wire, sentLog,
          scheduledDelay, closeCalled,
          liveChannels, wsTimers, invoked, pendingAtDrop, pongsSent>>

CallIds == 1 .. MaxCalls
\* The clock advances in steps of TickStep; ages are capped one step past the
\* longest duration they are compared with.
TickStep == requestTimeout
AgeCap == requestTimeout + TickStep
PingAgeCap == PING_TIMEOUT + TickStep
Min(a, b) == IF a < b THEN a ELSE b
Max(a, b) == IF a > b THEN a ELSE b

NoOutcome == [kind |-> "none", val |-> "", src |-> ""]
NewCall ==
    [req |-> Undefined, pc |-> "new", att |-> <<>>, timer |-> 0, age |-> 0,
     out |-> NoOutcome, via |-> <<>>, failure |-> "none", concurrent |-> FALSE,
     expect |-> Undefined, mustHit |-> FALSE, operations |-> NoArgument,
     direct |-> FALSE, overtaken |-> FALSE]

Settled(call) == call.pc \in {"resolved", "rejected"}
InFlight(call) == call.pc \notin {"new", "resolved", "rejected"}

\* Map.set on pendingRequests
MapSet(m, k, v) == [x \in DOMAIN m \cup {k} |-> IF x = k THEN v ELSE m[x]]

\* MapDelete with the entry left in the map.
MapDeleteNone(m, k) == m

\* Map.delete on pendingRequests
MapDelete(m, k) == [x \in DOMAIN m \ {k} |-> m[x]]
EmptyMap == [x \in {} |-> <<>>]

\* The part of the state the continuations of Shov.request work on.
Cur ==
    [calls |-> calls, pend |-> pendingRequests, cache |-> requestCache,
     last |-> lastRead]

\* ------------------------------------------------------------ Shov.request
\* The write w is one whose invalidation removes the cache entry of read r.
Invalidates(w, r) ==
    /\ Cacheable(r)
    /\ invalidateCache(CacheSet(<<>>, CacheKey(r), Undefined), w.command, w.body) = <<>>

\* History: request r completed successfully with data. A read becomes the
\* last successful read of its key; a write ends the write-free period of
\* every earlier read and overtakes the reads in flight whose cache entry it
\* invalidates.
Succeeded(S, r, data) ==
    IF isWriteOperation(r.command)
    THEN [S EXCEPT !.last = EmptyMap,
                   !.calls = [c \in CallIds |->
                       IF InFlight(S.calls[c]) /\ Invalidates(r, S.calls[c].req)
                       THEN [S.calls[c] EXCEPT !.overtaken = TRUE]
                       ELSE S.calls[c]]]
    ELSE IF Cacheable(r)
    THEN [S EXCEPT !.last = MapSet(@, CacheKey(r), [data |-> data, evicted |-> FALSE])]
    ELSE S

\* requestCache.set(cacheKey, ...) and the size check; the history notes the
\* key the size check evicts.
Cached(S, key, data) ==
    LET stored == CacheSet(S.cache, key, data)
        gone == IF Len(stored) > MaxCacheSize THEN {Head(stored).key} ELSE {}
    IN  [S EXCEPT !.cache = CachePut(@, key, data),
                  !.last = [k \in DOMAIN @ |->
                               IF k \in gone THEN [@[k] EXCEPT !.evicted = TRUE]
                               ELSE @[k]]]

\* A settled call keeps its request, the promise it awaited, the failure of
\* the first transport it tried and its outcome; what described the call in
\* flight is dropped.
Finished(call, kind, val, src) ==
    [NewCall EXCEPT !.req = call.req, !.att = call.att, !.failure = call.failure,
                    !.expect = call.expect, !.mustHit = call.mustHit,
                    !.operations = call.operations, !.direct = call.direct,
                    !.overtaken = call.overtaken,
                    !.pc = IF kind = "ok" THEN "resolved" ELSE "rejected",
                    !.out = [kind |-> kind, val |-> val, src |-> src]]

\* The promise of call c settles for c itself.
Settle(S, c, kind, val, src) ==
    [S EXCEPT !.calls[c] = Finished(S.calls[c], kind, val, src)]

\* return await this.pendingRequests.get(requestKey): every caller awaiting
\* promise p settles as p does.
SettleAttached(S, p, kind, val) ==
    [S EXCEPT !.calls = [c \in CallIds |->
        IF S.calls[c].pc = "attached" /\ S.calls[c].att = p
        THEN Finished(S.calls[c], kind, val, "attach")
        ELSE S.calls[c]]]

\* const httpPromise = (async () => ... fetch ...)(); pendingRequests.set(...)
StartFetch(S, c) ==
    [S EXCEPT !.calls[c].pc = "fetch",
              !.calls[c].via = Append(@, "fetch"),
              !.pend = MapSet(@, RequestKey(S.calls[c].req), <<c, "http">>)]

\* HttpPath with http3Client ignored: every request goes to fetch.
HttpPathPooledOnly(S, c) ==
    LET r == S.calls[c].req
        armed == [S EXCEPT !.calls[c].timer = FETCH_TIMEOUT]
    IN  IF Cacheable(r) /\ CacheFresh(S.cache, CacheKey(r))
        THEN Settle(S, c, "ok", CacheEntry(S.cache, CacheKey(r)).data, "cache")
        ELSE StartFetch(armed, c)

\* Shov.request from the cache lookup on: cache hit, HTTP/3 or fetch.
HttpPath(S, c) ==
    LET r == S.calls[c].req
        armed == [S EXCEPT !.calls[c].timer = FETCH_TIMEOUT]
    IN  IF Cacheable(r) /\ CacheFresh(S.cache, CacheKey(r))
        THEN Settle(S, c, "ok", CacheEntry(S.cache, CacheKey(r)).data, "cache")
        ELSE IF cfg.h3
        THEN [armed EXCEPT !.calls[c].pc = "h3", !.calls[c].via = Append(@, "h3")]
        ELSE StartFetch(armed, c)

\* const result = await wsPromise; pendingRequests.delete; return result
WsResolved(S, c, val) ==
    LET S1 == [S EXCEPT !.pend = MapDelete(@, RequestKey(S.calls[c].req))]
    IN  SettleAttached(Settle(Succeeded(S1, S.calls[c].req, val), c, "ok", val, "ws"),
                       <<c, "ws">>, "ok", val)

\* WsRejected with the rejection lost: the caller is left as it was.
WsRejectedLost(S, c, err) == S

\* catch (error) { pendingRequests.delete; fall through to HTTP }; a caller
\* of ShovWebSocket.batch itself gets the rejection.
WsRejected(S, c, err) ==
    LET S1 == [S EXCEPT !.pend = MapDelete(@, RequestKey(S.calls[c].req)),
                        !.calls[c].failure = err]
    IN  IF S.calls[c].direct THEN Settle(S1, c, "err", err, "ws")
        ELSE SettleAttached(HttpPath(S1, c), <<c, "ws">>, "err", err)

\* WsRejected for every call of the sequence ids, in order.
RECURSIVE WsRejectedAll(_, _, _)
WsRejectedAll(S, ids, err) ==
    IF ids = <<>> THEN S
    ELSE WsRejectedAll(WsRejected(S, Head(ids), err), Tail(ids), err)

\* The members of a set of call ids, the latest issued first.
RECURSIVE Descending(_)
Descending(set) ==
    IF set = {} THEN <<>>
    ELSE LET m == CHOOSE x \in set : \A y \in set : x >= y
         IN  <<m>> \o Descending(set \ {m})

\* The members of a set of call ids in ascending (issue) order.
RECURSIVE Ascending(_)
Ascending(set) ==
    IF set = {} THEN <<>>
    ELSE LET m == CHOOSE x \in set : \A y \in set : x <= y
         IN  <<m>> \o Ascending(set \ {m})

\* -------------------------------------------------------------------- Init
WsConfig == [ws |-> TRUE, h3 |-> FALSE]      \* useWebSocket
H3Config == [ws |-> FALSE, h3 |-> TRUE]      \* useHTTP3, node:http3 loaded
HttpConfig == [ws |-> FALSE, h3 |-> FALSE]   \* pooled fetch only

\* The state the constructor leaves: with useWebSocket it has called
\* wsClient.connect(), so a connection attempt is in flight.
InitWith(configs) ==
    /\ cfg \in configs
    /\ calls = [c \in CallIds |-> NewCall]
    /\ pendingRequests = EmptyMap
    /\ requestCache = <<>>
    /\ lastRead = EmptyMap
    /\ ws = IF cfg.ws THEN "CONNECTING" ELSE "NONE"
    /\ isConnected = FALSE
    /\ isConnecting = cfg.ws
    /\ reconnectAttempts = 0
    /\ messageQueue = <<>>
    /\ wsPendingRequests = {}
    /\ keepAlive = [armed |-> FALSE, left |-> 0]
    /\ lastPingAge = PingAgeCap
    /\ openAge = 0
    /\ reconnectTimers = 0
    /\ socketCloses = 0
    /\ wire = {}
    /\ sentLog = <<>>
    /\ scheduledDelay = 0
    /\ closeCalled = FALSE
    /\ liveChannels = IF cfg.ws THEN 1 ELSE 0
    /\ wsTimers = {}
    /\ invoked = [c \in CallIds |-> 0]
    /\ pendingAtDrop = {}
    /\ pongsSent = 0

\* ------------------------------------------------------------ ShovWebSocket
\* ConnectStarts without the test of isConnecting.
ConnectStartsWhileConnecting == ~isConnected

\* connect(): starts an attempt (a new socket) unless connected or connecting.
ConnectStarts == ~isConnected /\ ~isConnecting

\* send(data): written only when the socket is OPEN, dropped otherwise.
Sent(readyState, ids) == IF readyState = "OPEN" THEN ids ELSE {}

\* Written with nothing ever written.
WrittenNever(readyState, msgs) == <<>>

\* The same for the messages of the sequence msgs, in the order of the calls
\* to send.
Written(readyState, msgs) == IF readyState = "OPEN" THEN msgs ELSE <<>>

\* Cancelled with no timer cleared.
CancelledNone(timers, ids) == timers

\* clearTimeout(pending.timer) for the entries ids
Cancelled(timers, ids) == timers \ ids

\* pending.resolve / pending.reject called for the entries ids
Invoked(count, ids) ==
    [c \in CallIds |-> IF c \in ids THEN count[c] + 1 ELSE count[c]]

\* reconnectAttempts - 1 doublings of the base delay
RECURSIVE Pow2(_)
Pow2(n) == IF n <= 0 THEN 1 ELSE 2 * Pow2(n - 1)

\* ReconnectDelay without the cap of maxReconnectDelay.
ReconnectDelayUncapped(attempts) == reconnectDelay * Pow2(attempts - 1)

\* scheduleReconnect: the delay computed once reconnectAttempts was incremented
ReconnectDelay(attempts) ==
    Min(reconnectDelay * Pow2(attempts - 1), maxReconnectDelay)

\* ids of the messages of a queue
RECURSIVE QueueIds(_)
QueueIds(q) == IF q = <<>> THEN {} ELSE {Head(q)} \cup QueueIds(Tail(q))

\* Reschedules without the test of the attempts left.
ReschedulesUncapped(code) == code # 1000

\* scheduleReconnect() runs in onclose when the close was not the client's
\* and attempts are left.
Reschedules(code) == code # 1000 /\ reconnectAttempts < maxReconnectAttempts

\* ----------------------------------------------------------------- actions
\* Shov.request(command, body, method) up to its first suspension.
Request(r) ==
    \E c \in CallIds :
      /\ calls[c].pc = "new"
      /\ \A d \in CallIds : d < c => calls[d].pc # "new"
      /\ LET key == RequestKey(r)
             conc == \E d \in CallIds :
                        InFlight(calls[d]) /\ RequestKey(calls[d].req) = key
             seen == Cacheable(r) /\ CacheKey(r) \in DOMAIN lastRead
             base == [Cur EXCEPT
                         !.calls[c].req = r,
                         !.calls[c].concurrent = conc,
                         !.calls[c].expect =
                             IF seen THEN lastRead[CacheKey(r)].data ELSE Undefined,
                         !.calls[c].mustHit =
                             /\ seen
                             /\ ~cfg.ws
                             /\ ~lastRead[CacheKey(r)].evicted
                             /\ key \notin DOMAIN pendingRequests]
         IN  IF key \in DOMAIN pendingRequests
             THEN \* deduplicated: await the promise in the map
                  /\ calls' = [base.calls EXCEPT ![c].pc = "attached",
                                                 ![c].att = pendingRequests[key]]
                  /\ UNCHANGED <<pendingRequests, requestCache>>
                  /\ UNCHANGED wsVars
             ELSE IF cfg.ws
             THEN \* wsClient.request(command, body); pendingRequests.set
                  /\ pendingRequests' = MapSet(pendingRequests, key, <<c, "ws">>)
                  /\ UNCHANGED requestCache
                  /\ IF ~isConnected
                     THEN \* await this.connect()
                          /\ calls' = [base.calls EXCEPT ![c].pc = "wsConnect",
                                                         ![c].via = Append(@, "ws")]
                          /\ isConnecting' = TRUE
                          /\ ws' = IF ConnectStarts THEN "CONNECTING" ELSE ws
                          /\ wire' = IF ConnectStarts THEN {} ELSE wire
                          /\ sentLog' = IF ConnectStarts THEN <<>> ELSE sentLog
                          /\ liveChannels' = IF ConnectStarts THEN liveChannels + 1
                                             ELSE liveChannels
                          /\ UNCHANGED <<isConnected, reconnectAttempts, messageQueue,
                                         wsPendingRequests, keepAlive, lastPingAge, openAge,
                                         reconnectTimers, socketCloses,
                                         scheduledDelay, closeCalled,
                                         wsTimers, invoked, pendingAtDrop, pongsSent>>
                     ELSE \* register, arm the timer, send
                          /\ calls' = [base.calls EXCEPT ![c].pc = "wsWait",
                                                         ![c].timer = requestTimeout,
                                                         ![c].via = Append(@, "ws")]
                          /\ wsPendingRequests' = wsPendingRequests \cup {c}
                          /\ wsTimers' = wsTimers \cup {c}
                          /\ wire' = wire \cup Sent(ws, {c})
                          /\ sentLog' = sentLog \o Written(ws, <<c>>)
                          /\ UNCHANGED <<ws, isConnected, isConnecting, reconnectAttempts,
                                         messageQueue, keepAlive, lastPingAge, openAge,
                                         reconnectTimers, socketCloses,
                                         scheduledDelay, closeCalled,
                                         liveChannels, invoked, pendingAtDrop, pongsSent>>
             ELSE LET S == HttpPath(base, c)
                  IN  /\ calls' = S.calls
                      /\ pendingRequests' = S.pend
                      /\ requestCache' = S.cache
                      /\ UNCHANGED wsVars
      /\ UNCHANGED <<cfg, lastRead>>

\* Shov.batch(operations) refuses its argument: the ShovError is thrown
\* before anything else is done.
BatchRefused(operations, err) ==
    \E c \in CallIds :
      /\ calls[c].pc = "new"
      /\ \A d \in CallIds : d < c => calls[d].pc # "new"
      /\ calls' = [calls EXCEPT ![c] =
             Finished([NewCall EXCEPT !.operations = operations], "err", err, "batch")]
      /\ UNCHANGED <<cfg, pendingRequests, requestCache, lastRead>>
      /\ UNCHANGED wsVars

\* Shov.batch(operations): the three checks of the argument, then one
\* request('batch', {operations}).
Batch(operations) ==
    IF ~operations.isArray THEN BatchRefused(operations, "ShovError:notArray")
    ELSE IF Len(operations.items) = 0 THEN BatchRefused(operations, "ShovError:empty")
    ELSE IF TooMany(operations.items) THEN BatchRefused(operations, "ShovError:tooMany")
    ELSE Request(ApiBatch(operations.items))

\* fetch resolves with response.ok: finally deletes the key, the read is
\* cached or the write invalidates, every awaiting caller gets data.
FetchOk(c) ==
    /\ calls[c].pc = "fetch"
    /\ LET r == calls[c].req
           S1 == [Cur EXCEPT !.pend = MapDelete(@, RequestKey(r))]
           data == Data(c)
           S2 == Settle(Succeeded(S1, r, data), c, "ok", data, "fetch")
           S3 == IF Cacheable(r) THEN Cached(S2, CacheKey(r), data) ELSE S2
           S4 == IF isWriteOperation(r.command)
                 THEN [S3 EXCEPT !.cache = invalidateCache(@, r.command, r.body)]
                 ELSE S3
           S5 == SettleAttached(S4, <<c, "http">>, "ok", data)
       IN  /\ calls' = S5.calls
           /\ pendingRequests' = S5.pend
           /\ requestCache' = S5.cache
           /\ lastRead' = S5.last
    /\ UNCHANGED cfg
    /\ UNCHANGED wsVars

\* FetchFail with the invalidation moved into the finally block: a failed
\* write invalidates as a successful one does.
FetchFailInvalidates(c, err) ==
    /\ calls[c].pc = "fetch"
    /\ err = "fetchTimeout" <=> calls[c].timer = 0
    /\ LET r == calls[c].req
           S1 == [Cur EXCEPT !.pend = MapDelete(@, RequestKey(r))]
           S2 == SettleAttached(Settle(S1, c, "err", err, "fetch"),
                                <<c, "http">>, "err", err)
       IN  /\ calls' = S2.calls
           /\ pendingRequests' = S2.pend
           /\ requestCache' = IF isWriteOperation(r.command)
                              THEN invalidateCache(requestCache, r.command, r.body)
                              ELSE requestCache
    /\ UNCHANGED <<cfg, lastRead>>
    /\ UNCHANGED wsVars

\* fetch rejects (network error, abort by the 30 s signal) or the response
\* is not ok (ShovError with the status): finally deletes the key.
FetchFail(c, err) ==
    /\ calls[c].pc = "fetch"
    /\ err = "fetchTimeout" <=> calls[c].timer = 0
    /\ LET S1 == [Cur EXCEPT !.pend = MapDelete(@, RequestKey(calls[c].req))]
           S2 == SettleAttached(Settle(S1, c, "err", err, "fetch"),
                                <<c, "http">>, "err", err)
       IN  /\ calls' = S2.calls
           /\ pendingRequests' = S2.pend
    /\ UNCHANGED <<cfg, requestCache, lastRead>>
    /\ UNCHANGED wsVars

\* makeHTTP3Request: 'end' with a status below 400 and a parseable body.
H3Ok(c) ==
    /\ calls[c].pc = "h3"
    /\ LET r == calls[c].req
           data == Data(c)
           S1 == Succeeded(Cur, r, data)
           S2 == IF Cacheable(r) THEN Cached(S1, CacheKey(r), data) ELSE S1
           S3 == Settle(S2, c, "ok", data, "h3")
       IN  /\ calls' = S3.calls
           /\ requestCache' = S3.cache
           /\ lastRead' = S3.last
    /\ UNCHANGED <<cfg, pendingRequests>>
    /\ UNCHANGED wsVars

\* makeHTTP3Request rejects (status >= 400, unparseable body, stream error):
\* Shov.request catches it and goes on to fetch.
H3Fail(c, err) ==
    /\ calls[c].pc = "h3"
    /\ LET S == StartFetch([Cur EXCEPT !.calls[c].failure = err], c)
       IN  /\ calls' = S.calls
           /\ pendingRequests' = S.pend
    /\ UNCHANGED <<cfg, requestCache, lastRead>>
    /\ UNCHANGED wsVars

\* The callers have consumed the results of their calls: nothing of a
\* settled call remains in the client, so once no call is outstanding the
\* slots serve later calls.
Returned ==
    /\ \A c \in CallIds : ~InFlight(calls[c])
    /\ \E c \in CallIds : Settled(calls[c])
    /\ calls' = [c \in CallIds |-> NewCall]
    /\ UNCHANGED <<cfg, pendingRequests, requestCache, lastRead>>
    /\ UNCHANGED wsVars

\* Waiting with no registered request found.
WaitingNone(ids) == {}

\* The calls whose WebSocket promise is still pending among the ids.
Waiting(ids) == {c \in ids \cap CallIds : calls[c].pc = "wsWait"}

\* The callers suspended in `await this.connect()`.
Connecting == {c \in CallIds : calls[c].pc = "wsConnect"}

\* request() after connect() resolved, for the callers in ids: the timer is
\* armed and the entry stored.
Registered(S, ids) ==
    [S EXCEPT !.calls = [c \in CallIds |->
        IF c \in ids
        THEN [S.calls[c] EXCEPT !.pc = "wsWait", !.timer = requestTimeout]
        ELSE S.calls[c]]]

\* Queued with the message pushed whatever isConnected is.
QueuedAlways(connected, ids) == Ascending(ids)

\* `if (this.isConnected) send(message) else messageQueue.push(message)`
Queued(connected, ids) == IF connected THEN <<>> ELSE Ascending(ids)

\* batch(): `if (this.isConnected) send(batchMessage) else reject('Not connected')`
NotConnected(connected, ids) ==
    IF connected THEN {} ELSE {c \in ids : calls[c].direct}

\* requests.map((req, index) => ({id: `${id}_${index}`, command, body})):
\* the index of the first request is 0.
SubRequests(id, requests) ==
    [i \in DOMAIN requests |->
        [id |-> <<id, i - 1>>, command |-> requests[i].command,
         body |-> requests[i].body]]

\* The message {type: 'batch', id, requests} of ShovWebSocket.batch(requests)
BatchMessage(id, requests) ==
    [command |-> sBatch,
     body |-> [id |-> id, requests |-> SubRequests(id, requests)],
     method |-> "WS"]

\* The lists ShovWebSocket.batch is called with: two requests of different
\* commands.
WsBatchRequests ==
    {<<[command |-> sSet, body |-> [name |-> k]],
       [command |-> sGet, body |-> [name |-> k]]>> : k \in Keys}

\* ShovWebSocket.batch(requests) called on the connection manager itself,
\* up to its first suspension: await connect(), or register, arm the timer
\* and send.
WsBatch(requests) ==
    \E c \in CallIds :
      /\ calls[c].pc = "new"
      /\ \A d \in CallIds : d < c => calls[d].pc # "new"
      /\ LET base == [calls EXCEPT ![c].req = BatchMessage(c, requests),
                                   ![c].direct = TRUE,
                                   ![c].via = <<"ws">>]
         IN  IF ~isConnected
             THEN /\ calls' = [base EXCEPT ![c].pc = "wsConnect"]
                  /\ isConnecting' = TRUE
                  /\ ws' = IF ConnectStarts THEN "CONNECTING" ELSE ws
                  /\ wire' = IF ConnectStarts THEN {} ELSE wire
                  /\ sentLog' = IF ConnectStarts THEN <<>> ELSE sentLog
                  /\ liveChannels' = IF ConnectStarts THEN liveChannels + 1
                                     ELSE liveChannels
                  /\ UNCHANGED <<wsPendingRequests, wsTimers, invoked, pendingAtDrop, pongsSent>>
             ELSE /\ calls' = [base EXCEPT ![c].pc = "wsWait",
                                           ![c].timer = requestTimeout]
                  /\ wsPendingRequests' = wsPendingRequests \cup {c}
                  /\ wsTimers' = wsTimers \cup {c}
                  /\ invoked' = Invoked(invoked, NotConnected(isConnected, {c}))
                  /\ UNCHANGED <<pendingAtDrop, pongsSent>>
                  /\ wire' = wire \cup Sent(ws, {c})
                  /\ sentLog' = sentLog \o Written(ws, <<c>>)
                  /\ UNCHANGED <<ws, isConnecting, liveChannels>>
      /\ UNCHANGED <<cfg, pendingRequests, requestCache, lastRead, isConnected,
                     reconnectAttempts, messageQueue, keepAlive, lastPingAge, openAge,
                     reconnectTimers, socketCloses, scheduledDelay, closeCalled>>

\* AttemptsOnOpen with the count of failed attempts kept.
AttemptsKept(attempts) == attempts

\* onopen: this.reconnectAttempts = 0 (and reconnectDelay = 1000, the value
\* it always has)
AttemptsOnOpen(attempts) == 0

\* ws.onopen: flags, counters, keep-alive, the queue is flushed, the
\* connection promise resolves and the suspended callers register and send.
SocketOpen ==
    /\ ws = "CONNECTING"
    /\ ws' = "OPEN"
    /\ isConnected' = TRUE
    /\ isConnecting' = FALSE
    /\ reconnectAttempts' = AttemptsOnOpen(reconnectAttempts)
    /\ keepAlive' = [armed |-> TRUE, left |-> KEEPALIVE_INTERVAL]
    /\ messageQueue' = Queued(TRUE, Connecting)
    /\ wsPendingRequests' = wsPendingRequests \cup Connecting
    /\ wsTimers' = wsTimers \cup Connecting
    /\ wire' = wire \cup Sent("OPEN", QueueIds(messageQueue) \cup Connecting)
    /\ sentLog' = sentLog \o Written("OPEN", messageQueue \o Ascending(Connecting))
    /\ calls' = Registered(Cur, Connecting).calls
    /\ openAge' = 0
    /\ UNCHANGED <<cfg, pendingRequests, requestCache, lastRead, lastPingAge,
                   reconnectTimers, socketCloses, scheduledDelay, closeCalled,
                   liveChannels>>
    /\ invoked' = Invoked(invoked, NotConnected(TRUE, Connecting))
    /\ UNCHANGED <<pendingAtDrop, pongsSent>>

\* ws.onclose: flags, keep-alive stopped, every registered request rejected,
\* registry cleared, reconnect scheduled.
CloseHandler(S, code) ==
    /\ ws' = "CLOSED"
    /\ isConnected' = FALSE
    /\ isConnecting' = FALSE
    /\ keepAlive' = [armed |-> FALSE, left |-> 0]
    /\ wsPendingRequests' = {}
    /\ wsTimers' = Cancelled(wsTimers, wsPendingRequests)
    /\ invoked' = Invoked(invoked, wsPendingRequests)
    /\ UNCHANGED <<pendingAtDrop, pongsSent>>
    /\ LET S1 == WsRejectedAll(S, Ascending(Waiting(wsPendingRequests)), "wsClosed")
       IN  /\ calls' = S1.calls
           /\ pendingRequests' = S1.pend
           /\ requestCache' = S1.cache
    /\ UNCHANGED lastRead
    /\ reconnectAttempts' =
          IF Reschedules(code) THEN reconnectAttempts + 1 ELSE reconnectAttempts
    /\ reconnectTimers' =
          IF Reschedules(code) THEN reconnectTimers + 1 ELSE reconnectTimers
    /\ scheduledDelay' =
          IF Reschedules(code) THEN ReconnectDelay(reconnectAttempts + 1)
          ELSE scheduledDelay
    /\ liveChannels' = liveChannels - 1
    /\ openAge' = 0
    /\ UNCHANGED <<cfg, messageQueue, lastPingAge, wire, sentLog, closeCalled>>

\* ws.onclose of one of the sockets a behaviour lets fail or close.
OnClose(S, code) ==
    /\ socketCloses < MaxSocketCloses
    /\ socketCloses' = socketCloses + 1
    /\ CloseHandler(S, code)

\* The connection attempt fails: ws.onerror rejects the connection promise
\* (the suspended callers fall back), then ws.onclose runs with code 1006.
SocketFail ==
    /\ ws = "CONNECTING"
    /\ OnClose(WsRejectedAll(Cur, Ascending(Connecting), "wsConnectFailed"), 1006)

\* An open (or closing) socket closes, with the server's or the client's code.
SocketClose(code) ==
    /\ ws \in {"OPEN", "CLOSING"}
    /\ ~isConnecting
    /\ OnClose(Cur, code)

\* The same handlers for any number of sockets: the attempts of a channel
\* that keeps failing are bounded by the code's own maxReconnectAttempts.
AttemptFails ==
    /\ ws = "CONNECTING"
    /\ CloseHandler(WsRejectedAll(Cur, Ascending(Connecting), "wsConnectFailed"), 1006)
    /\ UNCHANGED socketCloses

ChannelDrops(code) ==
    /\ ws \in {"OPEN", "CLOSING"}
    /\ ~isConnecting
    /\ CloseHandler(Cur, code)
    /\ UNCHANGED socketCloses

\* The socket of an attempt that close() interrupted goes down before it
\* opened: onerror rejects the connection promise, then onclose runs.
AttemptAborted ==
    /\ ws = "CLOSING"
    /\ isConnecting
    /\ CloseHandler(WsRejectedAll(Cur, Ascending(Connecting), "wsConnectFailed"), 1006)
    /\ UNCHANGED socketCloses

\* ShovWebSocket.close(): no further automatic reconnect, the socket is asked
\* to close with code 1000, the keep-alive interval is cleared.
Close ==
    /\ ~closeCalled
    /\ closeCalled' = TRUE
    /\ reconnectAttempts' = maxReconnectAttempts
    /\ ws' = IF ws \in {"CONNECTING", "OPEN"} THEN "CLOSING" ELSE ws
    /\ keepAlive' = [armed |-> FALSE, left |-> 0]
    /\ UNCHANGED <<cfg, calls, pendingRequests, requestCache, lastRead, isConnected,
                   isConnecting, messageQueue, wsPendingRequests, lastPingAge, openAge,
                   reconnectTimers, socketCloses, wire, sentLog, scheduledDelay,
                   liveChannels, wsTimers, invoked, pendingAtDrop, pongsSent>>

\* A socket closed before it opened: ws.onerror rejects the connection
\* promise (isConnecting is still true), then ws.onclose runs.
SocketAbort ==
    /\ ws = "CLOSING"
    /\ isConnecting
    /\ OnClose(WsRejectedAll(Cur, Ascending(Connecting), "wsConnectFailed"), 1006)

\* The setTimeout of scheduleReconnect fires: connect().
ReconnectFire ==
    /\ reconnectTimers > 0
    /\ reconnectTimers' = reconnectTimers - 1
    /\ isConnecting' = (isConnecting \/ ConnectStarts)
    /\ ws' = IF ConnectStarts THEN "CONNECTING" ELSE ws
    /\ wire' = IF ConnectStarts THEN {} ELSE wire
    /\ sentLog' = IF ConnectStarts THEN <<>> ELSE sentLog
    /\ liveChannels' = IF ConnectStarts THEN liveChannels + 1 ELSE liveChannels
    /\ UNCHANGED <<cfg, calls, pendingRequests, requestCache, lastRead, isConnected,
                   reconnectAttempts, messageQueue, wsPendingRequests, keepAlive,
                   lastPingAge, openAge, socketCloses, scheduledDelay, closeCalled,
                   wsTimers, invoked, pendingAtDrop, pongsSent>>

\* WsMessage without the lookup of the id in the registry: whatever id the
\* message carries is settled.
WsMessageUnchecked(id, type) ==
    /\ ws \in {"OPEN", "CLOSING"}
    /\ id \in wire
    /\ wire' = wire \ {id}
    /\ wsPendingRequests' = wsPendingRequests \ {id}
    /\ wsTimers' = Cancelled(wsTimers, {id})
    /\ invoked' = Invoked(invoked, {id})
    /\ UNCHANGED <<pendingAtDrop, pongsSent>>
    /\ LET S == IF type = "error" THEN WsRejected(Cur, id, "wsAppError")
                ELSE WsResolved(Cur, id, Data(id))
       IN  /\ calls' = S.calls
           /\ pendingRequests' = S.pend
           /\ requestCache' = S.cache
           /\ lastRead' = S.last
    /\ UNCHANGED <<cfg, ws, isConnected, isConnecting, reconnectAttempts,
                   messageQueue, keepAlive, lastPingAge, openAge, reconnectTimers, socketCloses,
                   sentLog, scheduledDelay, closeCalled,
                   liveChannels>>

\* event.data of the inbound frames that carry no message the client acts
\* on: empty, cut off, not JSON, and an object without a type.
InboundTexts == {<<>>, <<"{">>, <<"o", "k">>, <<"{", "}">>}

\* JSON.parse(event.data) returns: of the texts above, the one that is an
\* object literal, opened and closed by braces with none in between.
Parses(text) ==
    /\ Len(text) >= 2
    /\ text[1] = "{" /\ text[Len(text)] = "}"
    /\ \A i \in 2 .. Len(text) - 1 : text[i] \notin {"{", "}"}

\* A handler that closes the channel on a parse failure.
Uncaught(readyState) == "CLOSING"

\* catch (error) { console.error(...) }: the socket is left as it is.
Caught(readyState) == readyState

\* ws.onmessage for a frame of InboundTexts: a parse failure is logged and the
\* frame dropped; the parsed object has none of the types handleMessage acts
\* on.
OnMessage(text) ==
    /\ ws \in {"OPEN", "CLOSING"}
    /\ ws' = IF Parses(text) THEN ws ELSE Caught(ws)
    /\ pendingAtDrop' = IF Parses(text) THEN pendingAtDrop
                        ELSE pendingAtDrop \cup wsPendingRequests
    /\ UNCHANGED <<cfg, calls, pendingRequests, requestCache, lastRead, isConnected,
                   isConnecting, reconnectAttempts, messageQueue, wsPendingRequests,
                   keepAlive, lastPingAge, openAge, reconnectTimers, socketCloses,
                   wire, sentLog, scheduledDelay, closeCalled, liveChannels,
                   wsTimers, invoked, pongsSent>>

\* pending.resolve(message) of a batch_response: the whole message, not its data
Message(id) == <<"message", id>>

\* handleMessage for {type: 'response' | 'error' | 'batch_response', id}: a
\* registered id is removed and its promise settled, an unknown id is ignored.
WsMessage(id, type) ==
    /\ ws \in {"OPEN", "CLOSING"}
    /\ id \in wire
    /\ wire' = wire \ {id}
    /\ wsPendingRequests' = wsPendingRequests \ {id}
    /\ wsTimers' = Cancelled(wsTimers, wsPendingRequests \cap {id})
    /\ invoked' = Invoked(invoked, wsPendingRequests \cap {id})
    /\ UNCHANGED <<pendingAtDrop, pongsSent>>
    /\ LET S == IF id \notin Waiting(wsPendingRequests) THEN Cur
                ELSE IF type = "error" THEN WsRejected(Cur, id, "wsAppError")
                ELSE IF type = "batch_response" THEN WsResolved(Cur, id, Message(id))
                ELSE WsResolved(Cur, id, Data(id))
       IN  /\ calls' = S.calls
           /\ pendingRequests' = S.pend
           /\ requestCache' = S.cache
           /\ lastRead' = S.last
    /\ UNCHANGED <<cfg, ws, isConnected, isConnecting, reconnectAttempts,
                   messageQueue, keepAlive, lastPingAge, openAge, reconnectTimers, socketCloses,
                   sentLog, scheduledDelay, closeCalled,
                   liveChannels>>

\* The time between the timestamp the server put in a ping and the arrival
\* of the ping.
PingDelays == {0, TickStep}

\* handleMessage for {type: 'ping', timestamp}: lastPingTime = message.timestamp,
\* then send({type: 'pong', ...}). Pings arrive in the order of their
\* timestamps.
WsPing(sentAgo) ==
    /\ ws \in {"OPEN", "CLOSING"}
    /\ sentAgo < lastPingAge
    /\ lastPingAge' = sentAgo
    /\ pongsSent' = Len(Written(ws, <<"pong">>))
    /\ UNCHANGED openAge
    /\ UNCHANGED <<cfg, calls, pendingRequests, requestCache, lastRead, ws, isConnected,
                   isConnecting, reconnectAttempts, messageQueue, wsPendingRequests,
                   keepAlive, reconnectTimers, socketCloses, wire, sentLog,
                   scheduledDelay, closeCalled,
                   liveChannels, wsTimers, invoked, pendingAtDrop>>

\* The request timer fires: the entry is deleted and the promise rejected.
WsTimeout(c) ==
    /\ c \in wsTimers
    /\ calls[c].timer = 0
    /\ wsTimers' = wsTimers \ {c}
    /\ wsPendingRequests' = wsPendingRequests \ {c}
    /\ invoked' = Invoked(invoked, {c})
    /\ UNCHANGED <<pendingAtDrop, pongsSent>>
    /\ LET S == IF c \in Waiting({c}) THEN WsRejected(Cur, c, "wsTimeout") ELSE Cur
       IN  /\ calls' = S.calls
           /\ pendingRequests' = S.pend
           /\ requestCache' = S.cache
           /\ lastRead' = S.last
    /\ UNCHANGED <<cfg, ws, isConnected, isConnecting, reconnectAttempts,
                   messageQueue, keepAlive, lastPingAge, openAge, reconnectTimers, socketCloses,
                   wire, sentLog, scheduledDelay, closeCalled,
                   liveChannels>>

\* The keep-alive interval fires: no ping for more than 60 s closes the
\* socket; the connect() that follows returns at once (isConnected is true).
KeepAliveCheck ==
    /\ keepAlive.armed
    /\ keepAlive.left = 0
    /\ keepAlive' = [keepAlive EXCEPT !.left = KEEPALIVE_INTERVAL]
    /\ ws' = IF isConnected /\ ws = "OPEN" /\ lastPingAge > PING_TIMEOUT
             THEN "CLOSING" ELSE ws
    /\ UNCHANGED <<cfg, calls, pendingRequests, requestCache, lastRead, isConnected,
                   isConnecting, reconnectAttempts, messageQueue, wsPendingRequests,
                   lastPingAge, openAge, reconnectTimers, socketCloses, wire, sentLog,
                   scheduledDelay, closeCalled,
                   liveChannels, wsTimers, invoked, pendingAtDrop, pongsSent>>

\* ------------------------------------------------------------------- clock
\* Time advances by TickStep; a timer that is due fires before time goes on.
TimerDue ==
    \/ \E c \in CallIds : calls[c].pc \in {"wsWait", "fetch"} /\ calls[c].timer = 0
    \/ keepAlive.armed /\ keepAlive.left = 0

Tick ==
    /\ ~TimerDue
    /\ calls' = [c \in CallIds |->
          IF InFlight(calls[c])
          THEN [calls[c] EXCEPT !.timer = Max(0, @ - TickStep),
                                !.age = Min(AgeCap, @ + TickStep)]
          ELSE calls[c]]
    /\ requestCache' = [i \in DOMAIN requestCache |->
          [requestCache[i] EXCEPT !.age = Min(CACHE_TTL, @ + TickStep)]]
    /\ keepAlive' = [keepAlive EXCEPT !.left = Max(0, @ - TickStep)]
    /\ lastPingAge' = Min(PingAgeCap, lastPingAge + TickStep)
    /\ openAge' = IF ws \in {"OPEN", "CLOSING"} /\ isConnected
                  THEN Min(PingAgeCap, openAge + TickStep) ELSE openAge
    /\ lastRead' = EmptyMap
    /\ UNCHANGED <<cfg, pendingRequests, ws, isConnected, isConnecting,
                   reconnectAttempts, messageQueue, wsPendingRequests,
                   reconnectTimers, socketCloses, wire, sentLog, scheduledDelay,
                   closeCalled,
                   liveChannels, wsTimers, invoked, pendingAtDrop, pongsSent>>

\* ----------------------------------------------------------- specification
CloseCodes == {1000, 1006}

\* The requests issued against the WebSocket-enabled client.
WsRequests == {ApiGet(k) : k \in Keys} \cup {ApiSet(k, "v1") : k \in Keys}

FetchStep ==
    \/ \E c \in CallIds : FetchOk(c)
    \/ \E c \in CallIds, err \in {"fetchError", "fetchAppError", "fetchTimeout"} :
          FetchFail(c, err)

H3Step ==
    \/ \E c \in CallIds : H3Ok(c)
    \/ \E c \in CallIds, err \in {"h3Error", "h3AppError"} : H3Fail(c, err)

SocketStep ==
    \/ SocketOpen
    \/ SocketFail
    \/ \E code \in CloseCodes : SocketClose(code)
    \/ ReconnectFire
    \/ \E id \in CallIds, type \in {"response", "error"} : WsMessage(id, type)
    \/ \E sentAgo \in PingDelays : WsPing(sentAgo)
    \/ \E c \in CallIds : WsTimeout(c)
    \/ KeepAliveCheck

\* A client constructed with useWebSocket: persistent channel, then fetch.
Next ==
    \/ \E r \in WsRequests : Request(r)
    \/ FetchStep
    \/ SocketStep
    \/ Tick

Init == InitWith({WsConfig})
Spec == Init /\ [][Next]_vars

\* A client without WebSocket: HTTP/3 (when loaded) then fetch, or fetch only.
NextHttp ==
    \/ \E r \in Requests : Request(r)
    \/ H3Step
    \/ FetchStep
    \/ Tick

InitHttp == InitWith({H3Config, HttpConfig})
SpecHttp == InitHttp /\ [][NextHttp]_vars

\* A client of any configuration under the requests that exercise the cache
\* (a keyed read, a collection read and the keyed write), with a persistent
\* channel that opens and stays open; its keep-alive watchdog is left out, so
\* on that client time stops when the first keep-alive check is due.
CacheRequests ==
    {ApiGet(k) : k \in Keys} \cup {ApiSet(k, "v1") : k \in Keys}
        \cup {ApiWhere(c) : c \in Collections}

NextCache ==
    \/ \E r \in CacheRequests : Request(r)
    \/ H3Step
    \/ FetchStep
    \/ SocketOpen
    \/ \E id \in CallIds, type \in {"response", "error"} : WsMessage(id, type)
    \/ \E c \in CallIds : WsTimeout(c)
    \/ Tick

InitCache == InitWith({WsConfig, H3Config, HttpConfig})
SpecCache == InitCache /\ [][NextCache]_vars

\* A client with pooled fetch only, under the collection operations of the
\* public API and the reads whose results they can make stale.
CollectionWrites ==
    {ApiAdd(c, "v1") : c \in Collections}
        \cup {ApiAddMany(c, <<"v1">>) : c \in Collections}
        \cup {ApiUpdate(c, i, "v1") : c \in Collections, i \in Ids}
        \cup {ApiRemove(c, i) : c \in Collections, i \in Ids}
        \cup {ApiClear(c) : c \in Collections}

FetchRequests ==
    {ApiGet(k) : k \in Keys} \cup {ApiWhere(c) : c \in Collections}
        \cup CollectionWrites

NextFetch ==
    \/ \E r \in FetchRequests : Request(r)
    \/ FetchStep
    \/ Tick

InitFetch == InitWith({HttpConfig})
SpecFetch == InitFetch /\ [][NextFetch]_vars

\* The ShovWebSocket of a WebSocket-enabled client under requests, every kind
\* of inbound message, request timers, socket failures and closes. The HTTP
\* fallback of a request the channel failed is started and left unanswered;
\* the keep-alive watchdog is left out, so time stops when its first check is
\* due.
MessageTypes == {"response", "error", "batch_response"}

NextWs ==
    \/ \E r \in WsRequests : Request(r)
    \/ SocketOpen
    \/ SocketFail
    \/ \E code \in CloseCodes : SocketClose(code)
    \/ ReconnectFire
    \/ \E id \in CallIds, type \in MessageTypes : WsMessage(id, type)
    \/ \E c \in CallIds : WsTimeout(c)
    \/ Tick

SpecWs == Init /\ [][NextWs]_vars

\* The connection management of ShovWebSocket: requests, socket events,
\* reconnect timers, pings, the watchdog and close(), with a server that
\* answers no request.
NextWatch ==
    \/ \E r \in WsRequests : Request(r)
    \/ SocketOpen
    \/ SocketFail
    \/ \E code \in CloseCodes : SocketClose(code)
    \/ SocketAbort
    \/ Close
    \/ ReconnectFire
    \/ \E sentAgo \in PingDelays : WsPing(sentAgo)
    \/ \E c \in CallIds : WsTimeout(c)
    \/ KeepAliveCheck
    \/ Tick

SpecWatch == Init /\ [][NextWatch]_vars

\* The pending registry of ShovWebSocket under the requests of a client and
\* direct calls of batch(), with every event that settles a registered
\* request: responses of each type, request timers, failed attempts and
\* closes.
RegistryRequests == {ApiGet(k) : k \in Keys}

NextRegistry ==
    \/ \E r \in RegistryRequests : Request(r)
    \/ \E requests \in WsBatchRequests : WsBatch(requests)
    \/ SocketOpen
    \/ SocketFail
    \/ \E code \in CloseCodes : SocketClose(code)
    \/ ReconnectFire
    \/ \E id \in CallIds, type \in MessageTypes : WsMessage(id, type)
    \/ \E c \in CallIds : WsTimeout(c)
    \/ Tick

SpecRegistry == Init /\ [][NextRegistry]_vars

\* The ShovWebSocket of a WebSocket-enabled client under requests, responses
\* of every type, frames without a message, request timers, failed attempts
\* and closes.
NextParse ==
    \/ \E r \in RegistryRequests : Request(r)
    \/ SocketOpen
    \/ SocketFail
    \/ \E code \in CloseCodes : SocketClose(code)
    \/ ReconnectFire
    \/ \E id \in CallIds, type \in MessageTypes : WsMessage(id, type)
    \/ \E text \in InboundTexts : OnMessage(text)
    \/ \E c \in CallIds : WsTimeout(c)
    \/ Tick

SpecParse == Init /\ [][NextParse]_vars

\* The reconnect cycle of a channel that may fail any number of times: one
\* caller's requests, attempts that fail or open, channels that drop, and the
\* reconnect timers. Requests are not answered and time is not advanced.
ReconnectRequests == {ApiGet(k) : k \in Keys}

NextReconnect ==
    \/ \E r \in ReconnectRequests : Request(r)
    \/ SocketOpen
    \/ AttemptFails
    \/ \E code \in CloseCodes : ChannelDrops(code)
    \/ ReconnectFire

SpecReconnect == Init /\ [][NextReconnect]_vars

\* The reconnect cycle with close(): attempts that fail, open or are
\* interrupted, channels that drop with either code, reconnect timers, the
\* connects of callers' requests and one call of close(), in any order.
NextBackoff ==
    \/ \E r \in ReconnectRequests : Request(r)
    \/ SocketOpen
    \/ AttemptFails
    \/ AttemptAborted
    \/ \E code \in CloseCodes : ChannelDrops(code)
    \/ Close
    \/ ReconnectFire

SpecBackoff == Init /\ [][NextBackoff]_vars

\* The heartbeat of an open channel: direct calls of batch(), their
\* responses and timers, pings, the watchdog, and closes of the socket.
NextPing ==
    \/ \E requests \in WsBatchRequests : WsBatch(requests)
    \/ SocketOpen
    \/ \E code \in CloseCodes : SocketClose(code)
    \/ \E id \in CallIds, type \in MessageTypes : WsMessage(id, type)
    \/ \E sentAgo \in PingDelays : WsPing(sentAgo)
    \/ \E c \in CallIds : WsTimeout(c)
    \/ KeepAliveCheck
    \/ Tick

SpecPing == Init /\ [][NextPing]_vars

\* A client without WebSocket under three reads of the public API, each
\* with its own cache key, issued by callers that go on to further calls
\* once they have their result, so that the cache fills beyond its capacity.
\* Time is not advanced.
ReadRequests ==
    {ApiGet(k) : k \in Keys} \cup {ApiWhere(c) : c \in Collections}
        \cup {ApiCount(c) : c \in Collections}

NextEvict ==
    \/ \E r \in ReadRequests : Request(r)
    \/ Returned
    \/ H3Step
    \/ FetchStep

SpecEvict == InitHttp /\ [][NextEvict]_vars

\* The same client with time: an entry expires, its key is read again and
\* stored with a new timestamp.
NextStore ==
    \/ \E r \in ReadRequests : Request(r)
    \/ Returned
    \/ H3Step
    \/ FetchStep
    \/ Tick

SpecStore == InitHttp /\ [][NextStore]_vars

\* A client of any configuration under Shov.batch, called with arguments
\* around the limits of its checks, and the reads whose cached results a
\* batch can invalidate. Time is not advanced.
BatchReads == {ApiGet(k) : k \in Keys} \cup {ApiWhere(c) : c \in Collections}

BatchInputs ==
    {NotAnArray, Array(<<>>)}
        \cup {Array(<<AddOperation(c)>>) : c \in Collections}
        \cup {Array(Repeat(SetOperation(k), MaxBatchOperations)) : k \in Keys}
        \cup {Array(Repeat(SetOperation(k), MaxBatchOperations + 1)) : k \in Keys}

NextBatch ==
    \/ \E operations \in BatchInputs : Batch(operations)
    \/ \E r \in BatchReads : Request(r)
    \/ H3Step
    \/ FetchStep
    \/ SocketOpen
    \/ \E id \in CallIds, type \in MessageTypes : WsMessage(id, type)

SpecBatch == InitCache /\ [][NextBatch]_vars

\* ------------------------------------------------------------------ claims
\* Call c completes successfully in this step.
Completes(c) == InFlight(calls[c]) /\ calls'[c].pc = "resolved"

\* Call c was served from the cache with the payload of the earlier read.
ServedFromCache(c) ==
    /\ calls[c].pc = "resolved"
    /\ calls[c].out = [kind |-> "ok", val |-> calls[c].expect, src |-> "cache"]

\* C1: no call is still unsettled more than its timeout (30 s) after it was
\* issued, whatever the connection does.
C1_SettlesWithinTimeout ==
    \A c \in CallIds : InFlight(calls[c]) => calls[c].age <= requestTimeout

\* C2: a call issued while an identical one is in flight dispatches no
\* transport operation of its own.
C2_OneOperationForIdenticalCalls ==
    \A c \in CallIds :
        InFlight(calls[c]) /\ calls[c].concurrent => calls[c].via = <<>>

\* C3: a caller attached to an in-flight operation settles with the outcome
\* (success value or error) of the caller that started the operation.
C3_AttachedShareOutcome ==
    \A c \in CallIds :
        (calls[c].att # <<>> /\ Settled(calls[c]) /\ Settled(calls[calls[c].att[1]]))
            => LET starter == calls[calls[c].att[1]]
               IN  /\ calls[c].out.kind = starter.out.kind
                   /\ calls[c].out.val = starter.out.val

C5_KeyedWriteInvalidates ==
    [][\A c \in CallIds, k \in Keys :
          (Completes(c) /\ calls[c].req \in {ApiSet(k, "v1"), ApiForget(k)})
              => ~CacheHas(requestCache', CacheKey(ApiGet(k)))]_vars

\* C6: when a collection write of the public API (add, update, remove,
\* clear) completes successfully, no entry the cache held before remains.
C6_CollectionWriteClears ==
    [][\A c \in CallIds :
          (Completes(c) /\ calls[c].req \in CollectionWrites)
              => \A i \in DOMAIN requestCache :
                     ~CacheHas(requestCache', requestCache[i].key)]_vars

\* C7: when a write completes successfully on any transport, the cache after
\* the step is the cache before it with invalidateCache applied.
C7_InvalidationOnEveryTransport ==
    [][\A c \in CallIds :
          (Completes(c) /\ isWriteOperation(calls[c].req.command))
              => requestCache' =
                     invalidateCache(requestCache, calls[c].req.command,
                                     calls[c].req.body)]_vars

\* C8: a call whose transport returned an application-level error is
\* rejected with that error and goes to no other transport.
C8_ApplicationErrorTerminal ==
    \A c \in CallIds :
        calls[c].failure \in {"wsAppError", "h3AppError"}
            => /\ calls[c].pc = "rejected"
               /\ calls[c].out.val = calls[c].failure

\* C9: a call that timed out on the persistent channel is rejected with the
\* timeout error and is not re-issued.
C9_TimeoutSurfaced ==
    \A c \in CallIds :
        calls[c].failure = "wsTimeout"
            => /\ calls[c].pc = "rejected"
               /\ calls[c].out.val = "wsTimeout"

\* C10: a caller whose request met a transport-level failure of the
\* persistent channel gets the result of the next transport; the channel's
\* own error never reaches a caller.
C10_TransportFailureFallsThrough ==
    \A c \in CallIds :
        Settled(calls[c])
            => /\ calls[c].out.val \notin {"wsClosed", "wsConnectFailed"}
               /\ calls[c].failure \in {"wsClosed", "wsConnectFailed"}
                      => calls[c].out.src \in {"fetch", "cache"}

\* The callers awaiting the WebSocket promise of call c.
AttachedTo(c) ==
    {d \in CallIds : calls[d].pc = "attached" /\ calls[d].att = <<c, "ws">>}

\* The WebSocket promise of call c is rejected with err in this step: the
\* call has left the registry and its wait, and its attached callers get err.
RejectedWith(c, err) ==
    /\ c \notin wsPendingRequests'
    /\ calls'[c].pc # "wsWait"
    /\ calls'[c].failure = err
    /\ \A d \in AttachedTo(c) :
           calls'[d].pc = "rejected" /\ calls'[d].out.val = err

\* C11: when the timer of a registered request fires before any response,
\* its entry is removed from the registry and its promise is rejected with
\* the timeout error.
C11_TimerRemovesAndRejects ==
    [][\A c \in CallIds :
          (/\ calls[c].pc = "wsWait" /\ calls[c].timer = 0
           /\ c \in wsPendingRequests /\ c \notin wsPendingRequests'
           /\ ws' = ws /\ wire' = wire)
              => RejectedWith(c, "wsTimeout")]_vars

\* C11 witness: a request timed out and is no longer registered.
C11_Witness ==
    \E c \in CallIds :
        calls[c].failure = "wsTimeout" /\ c \notin wsPendingRequests

\* C12: an inbound response, error or batch_response whose id is not in the
\* registry changes nothing but the channel's input: no caller settles, the
\* registry, the queue and the connection state stay as they are.
C12_UnknownIdIgnored ==
    [][(/\ ws' = ws /\ wire' # wire /\ wire' \subseteq wire
        /\ (wire \ wire') \cap wsPendingRequests = {})
          => UNCHANGED <<calls, pendingRequests, requestCache, wsPendingRequests,
                         messageQueue, isConnected, isConnecting,
                         reconnectAttempts, reconnectTimers, keepAlive>>]_vars

\* C12 witness: the response to a request that had timed out arrived on the
\* same socket afterwards.
C12_Witness ==
    \E c \in CallIds :
        /\ calls[c].failure = "wsTimeout"
        /\ ws = "OPEN"
        /\ \E i \in DOMAIN sentLog : sentLog[i] = c
        /\ c \notin wire

\* C13: when the channel closes, with any code, every request registered at
\* that moment is rejected with the connection-closed error, is no longer
\* waiting on its timer, and the registry is empty.
C13_CloseRejectsAll ==
    [][(ws # "CLOSED" /\ ws' = "CLOSED")
          => /\ wsPendingRequests' = {}
             /\ \A c \in wsPendingRequests : RejectedWith(c, "wsClosed")
             /\ \A c \in CallIds : calls'[c].pc # "wsWait"]_vars

\* C13 witness: the channel closed while a request was registered.
C13_Witness ==
    \E c \in CallIds :
        calls[c].failure = "wsClosed" /\ ws = "CLOSED" /\ wsPendingRequests = {}

\* C14: once close() has been called, no connection attempt is started by a
\* reconnect timer (a step that starts an attempt consumes no timer).
C14_NoReconnectAfterClose ==
    [][(closeCalled /\ ws # "CONNECTING" /\ ws' = "CONNECTING")
          => reconnectTimers' = reconnectTimers]_vars

\* C15: a watchdog check on an open channel without a ping for more than
\* 60 s closes the channel, and when that channel has closed a reconnect is
\* scheduled with the base delay (attempt 1).
C15_WatchdogReconnects ==
    [][/\ (/\ keepAlive.armed /\ keepAlive.left = 0
           /\ keepAlive'.left = KEEPALIVE_INTERVAL
           /\ isConnected /\ ws = "OPEN" /\ lastPingAge > PING_TIMEOUT)
              => ws' = "CLOSING"
       /\ (ws = "CLOSING" /\ ~closeCalled /\ ws' = "CLOSED")
              => /\ reconnectTimers' = reconnectTimers + 1
                 /\ reconnectAttempts' = 1
                 /\ scheduledDelay' = reconnectDelay]_vars

\* The delays the specification lists for attempts 1, 2, 3, ...
SpecifiedDelay(n) ==
    CASE n = 1 -> 1000
      [] n = 2 -> 2000
      [] n = 3 -> 4000
      [] n = 4 -> 8000
      [] n = 5 -> 16000
      [] OTHER -> 30000

\* C16: whenever a reconnect is scheduled, it is the n-th since the last
\* open with n = reconnectAttempts, and its delay is min(1000 * 2^(n-1),
\* 30000): 1000, 2000, 4000, 8000, 16000, then 30000.
C16_BackoffDelay ==
    [][reconnectTimers' = reconnectTimers + 1
          => /\ reconnectAttempts' = reconnectAttempts + 1
             /\ reconnectAttempts' \in 1..maxReconnectAttempts
             /\ scheduledDelay' = SpecifiedDelay(reconnectAttempts')]_vars

\* C16 witness: the sixth consecutive reconnect was scheduled, at the cap.
C16_Witness ==
    /\ reconnectAttempts = 6
    /\ reconnectTimers = 1
    /\ scheduledDelay = maxReconnectDelay

\* C17: once maxReconnectAttempts consecutive attempts have failed and no
\* timer is left, no connection attempt is started any more, by a caller's
\* request either.
C17_TerminalAfterMaxAttempts ==
    [][(/\ reconnectAttempts = maxReconnectAttempts /\ reconnectTimers = 0
        /\ ~closeCalled /\ ws = "CLOSED")
          => ws' # "CONNECTING"]_vars

\* C18: at most one socket has been created and not closed yet, it is the
\* one the flags describe, and isConnected and isConnecting are never both
\* true.
C18_OneLiveChannel ==
    /\ liveChannels \in {0, 1}
    /\ liveChannels = 1 <=> ws \in {"CONNECTING", "OPEN", "CLOSING"}
    /\ ~(isConnected /\ isConnecting)
    /\ isConnected => ws \in {"OPEN", "CLOSING"}
    /\ isConnecting => ws \in {"CONNECTING", "CLOSING"}

\* C18 witness: two callers await the same connection attempt.
C18_Witness ==
    /\ ws = "CONNECTING"
    /\ isConnecting
    /\ Cardinality(Connecting) >= 2

C20_NoSilentDrop ==
    [][\A c \in CallIds :
          (calls[c].pc # "wsWait" /\ calls'[c].pc = "wsWait" /\ ws' # "OPEN")
              => \/ c \in QueueIds(messageQueue')
                 \/ calls'[c].failure # "none"]_vars

\* C21: every entry of the request cache holds the payload of a successfully
\* completed read (get, where, search or count with POST) of the entry's key;
\* writes, other commands and failed requests store nothing.
C21_OnlySuccessfulReadsCached ==
    \A i \in DOMAIN requestCache :
        \E c \in CallIds :
            /\ calls[c].pc = "resolved"
            /\ calls[c].out = [kind |-> "ok", val |-> requestCache[i].data,
                               src |-> calls[c].out.src]
            /\ calls[c].out.src \in {"fetch", "h3"}
            /\ requestCache[i].data = Data(c)
            /\ isReadOperation(calls[c].req.command)
            /\ calls[c].req.method = "POST"
            /\ requestCache[i].key = CacheKey(calls[c].req)

\* C21 witness: the cache holds the entry of a completed read while a write
\* has completed and stored nothing.
C21_Witness ==
    /\ Len(requestCache) = 1
    /\ \E c, d \in CallIds :
          /\ calls[c].pc = "resolved" /\ requestCache[1].data = Data(c)
          /\ calls[d].pc = "resolved" /\ isWriteOperation(calls[d].req.command)
          /\ calls[d].out.src \in {"fetch", "h3"}

\* C22: a call is served from the cache only by an entry of its key younger
\* than CACHE_TTL; with an older entry, as with none, the call goes on to a
\* transport.
C22_ExpiredEntryAbsent ==
    [][\A c \in CallIds :
          (calls[c].out.src # "cache" /\ calls'[c].out.src = "cache")
              => LET key == CacheKey(calls'[c].req)
                 IN  /\ CacheHas(requestCache, key)
                     /\ CacheEntry(requestCache, key).age < CACHE_TTL
                     /\ calls'[c].out.val = CacheEntry(requestCache, key).data]_vars

\* C22 witness: a read was issued while the cache held an expired entry of
\* its key, and it is waiting for a transport.
C22_Witness ==
    \E c \in CallIds :
        /\ calls[c].pc \in {"fetch", "h3"}
        /\ calls[c].age = 0
        /\ CacheHas(requestCache, CacheKey(calls[c].req))
        /\ CacheEntry(requestCache, CacheKey(calls[c].req)).age >= CACHE_TTL

\* C23: the request cache never holds more entries than its capacity, and
\* never two entries of one key.
C23_CacheBounded ==
    /\ Len(requestCache) <= MaxCacheSize
    /\ \A i, j \in DOMAIN requestCache :
          requestCache[i].key = requestCache[j].key => i = j

\* C23 witness: the cache is full and the entry of a completed read has been
\* evicted to make room for a later one.
C23_Witness ==
    /\ Len(requestCache) = MaxCacheSize
    /\ \E key \in DOMAIN lastRead :
          lastRead[key].evicted /\ ~CacheHas(requestCache, key)

\* C24: Shov.batch rejects with a ShovError an argument that is not an
\* array, is empty or has more than 50 operations, and that step changes
\* nothing but the fate of the call; a list of 1 to 50 operations is the body
\* of one request with command 'batch'.
C24_BatchValidated ==
    /\ [](\A c \in CallIds :
             /\ calls[c].out.src = "batch"
                   => /\ calls[c].pc = "rejected"
                      /\ calls[c].out.val \in {"ShovError:notArray", "ShovError:empty",
                                               "ShovError:tooMany"}
                      /\ calls[c].via = <<>> /\ calls[c].att = <<>>
                      /\ \/ ~calls[c].operations.isArray
                         \/ Len(calls[c].operations.items) = 0
                         \/ Len(calls[c].operations.items) > 50
             /\ (calls[c].pc # "new" /\ calls[c].out.src # "batch"
                    /\ calls[c].req.command = sBatch)
                   => /\ Len(calls[c].req.body.operations) \in 1 .. 50
                      /\ calls[c].req.method = "POST"
                      /\ DOMAIN calls[c].req.body = {"operations"})
    /\ [][\A c \in CallIds :
             (calls[c].pc = "new" /\ calls'[c].out.src = "batch")
                 => /\ pendingRequests' = pendingRequests
                    /\ requestCache' = requestCache
                    /\ wire' = wire /\ sentLog' = sentLog
                    /\ wsPendingRequests' = wsPendingRequests
                    /\ \A d \in CallIds \ {c} : calls'[d] = calls[d]]_vars

\* C24 witness: a batch of more than 50 operations was refused while a batch
\* of exactly 50 operations is in flight as one request.
C24_Witness ==
    \E c, d \in CallIds :
        /\ calls[c].out = [kind |-> "err", val |-> "ShovError:tooMany", src |-> "batch"]
        /\ Len(calls[c].operations.items) = 51
        /\ InFlight(calls[d])
        /\ calls[d].req.command = sBatch
        /\ Len(calls[d].req.body.operations) = 50

\* C25: the continuation of a registered request is invoked at most once,
\* and once it has been invoked the request is no longer in the registry and
\* its timer is no longer armed; a registered request that has not been
\* settled has its timer armed.
C25_SettledAtMostOnce ==
    \A c \in CallIds :
        /\ invoked[c] <= 1
        /\ invoked[c] = 1 => c \notin wsPendingRequests /\ c \notin wsTimers
        /\ c \in wsPendingRequests => c \in wsTimers /\ calls[c].pc = "wsWait"
        /\ c \in wsTimers => c \in wsPendingRequests

\* C25 witness: a request was settled by its timer and a batch by the close
\* of the connection, each exactly once.
C25_Witness ==
    \E c, d \in CallIds :
        /\ calls[c].failure = "wsTimeout" /\ invoked[c] = 1
        /\ calls[d].direct /\ calls[d].out.val = "wsClosed" /\ invoked[d] = 1

\* C26: every entry of the in-flight map is the promise of a call that has
\* not settled and that was issued with the entry's key, so the map is empty
\* when no call is outstanding and a call issued after an operation settled
\* is never attached to it.
C26_OnlyUnsettledInFlight ==
    /\ \A key \in DOMAIN pendingRequests :
          LET c == pendingRequests[key][1]
              transport == pendingRequests[key][2]
          IN  /\ RequestKey(calls[c].req) = key
              /\ transport = "ws" => calls[c].pc \in {"wsConnect", "wsWait"}
              /\ transport = "http" => calls[c].pc = "fetch"
    /\ (\A c \in CallIds : ~InFlight(calls[c])) => pendingRequests = EmptyMap
    /\ \A c \in CallIds :
          calls[c].pc = "attached" => ~Settled(calls[calls[c].att[1]])

\* C26 witness: an operation a second caller was attached to has completed,
\* both callers have its result and the map is empty.
C26_Witness ==
    /\ pendingRequests = EmptyMap
    /\ \E c, d \in CallIds :
          /\ calls[c].pc = "resolved" /\ calls[c].out.src \in {"fetch", "ws"}
          /\ calls[d].pc = "resolved" /\ calls[d].att \in {<<c, "http">>, <<c, "ws">>}

\* C27: the cache never holds, for get of a key, the payload of a read that
\* was in flight when a successful set or forget of that key completed.
C27_NoStaleRepopulation ==
    \A i \in DOMAIN requestCache, c \in CallIds :
        (requestCache[i].data = Data(c) /\ calls[c].req.command = sGet)
            => ~calls[c].overtaken

C29_WatchdogOnlyAfterSilence ==
    [][(/\ keepAlive.armed /\ keepAlive.left = 0
        /\ keepAlive'.left = KEEPALIVE_INTERVAL
        /\ ws = "OPEN" /\ ws' = "CLOSING")
           => /\ openAge > PING_TIMEOUT
              /\ lastPingAge > PING_TIMEOUT]_vars

\* C30: a write issued while an identical write is in flight dispatches
\* nothing of its own: it is attached to the write in flight and settles with
\* that write's result.
C30_IdenticalWritesShareOne ==
    \A c \in CallIds :
        (calls[c].pc # "new" /\ isWriteOperation(calls[c].req.command))
            => /\ (InFlight(calls[c]) /\ calls[c].concurrent)
                      => calls[c].via = <<>> /\ calls[c].att # <<>>
               /\ (calls[c].att # <<>> /\ Settled(calls[c])
                       /\ Settled(calls[calls[c].att[1]]))
                      => calls[c].out.val = calls[calls[c].att[1]].out.val

\* The entries of a cache without the i-th.
Without(cache, i) == SubSeq(cache, 1, i - 1) \o SubSeq(cache, i + 1, Len(cache))

\* C31: when the result of a completed read is stored and the cache then
\* holds more entries than its capacity, the cache after the step is the
\* cache with the result stored less exactly one entry, and no entry is older
\* (was written earlier) than the one removed.
C31_OldestEvicted ==
    [][\A c \in CallIds :
          (/\ Completes(c) /\ calls'[c].out.src \in {"fetch", "h3"}
           /\ Cacheable(calls[c].req))
              => LET stored == CacheSet(requestCache, CacheKey(calls[c].req), Data(c))
                 IN  Len(stored) > MaxCacheSize
                         => \E i \in DOMAIN stored :
                                /\ requestCache' = Without(stored, i)
                                /\ \A j \in DOMAIN stored :
                                       stored[j].age <= stored[i].age]_vars

\* The invalidation rule of one operation of a batch: a set or forget of key
\* k removes the entry of get k, an add, update, remove or clear on a
\* collection empties the cache, any other operation leaves it as it is.
Rule(cache, op) ==
    IF op.type \in {sSet, sForget} /\ Truthy(Field(op, "name"))
    THEN CacheDelete(cache, CacheKey(ApiGet(op.name)))
    ELSE IF op.type \in {sAdd, sUpdate, sRemove, sClear} /\ Truthy(Field(op, "collection"))
    THEN <<>>
    ELSE cache

\* The rules of the operations i, i + 1, ... of a list applied in list order.
RECURSIVE RulesInOrder(_, _, _)
RulesInOrder(cache, operations, i) ==
    IF i > Len(operations) THEN cache
    ELSE LET next == Rule(cache, operations[i])
         IN  IF Len(next) = 0 THEN next
             ELSE RulesInOrder(next, operations, i + 1)

\* C32: when a batch request completes successfully, the cache after the
\* step is the cache before it with the rule of each operation of the batch
\* applied in list order.
C32_BatchInvalidatesInOrder ==
    [][\A c \in CallIds :
          (Completes(c) /\ calls[c].req.command = sBatch)
              => requestCache' =
                     RulesInOrder(requestCache, calls[c].req.body.operations, 1)]_vars

\* C33: a step that drops an unparseable inbound message changes neither the
\* connection state, the registry, the queue nor any call; the requests that
\* were registered at that moment keep their timer and their place on the
\* open channel until a response or the timer settles them.
C33_UnparseableDropped ==
    /\ [][pendingAtDrop' # pendingAtDrop
             => UNCHANGED <<ws, isConnected, isConnecting, wsPendingRequests,
                            messageQueue, calls, pendingRequests, requestCache,
                            wsTimers, wire, sentLog, reconnectAttempts,
                            reconnectTimers, keepAlive, lastPingAge>>]_vars
    /\ [](\A c \in pendingAtDrop \cap wsPendingRequests :
             /\ ws = "OPEN" /\ isConnected
             /\ c \in wsTimers /\ c \in wire
             /\ calls[c].pc = "wsWait")

\* C33 witness: of two requests registered when an unparseable message was
\* dropped, one was resolved by its response afterwards and the other was
\* rejected by its timer.
C33_Witness ==
    \E c, d \in pendingAtDrop :
        /\ calls[c].pc = "resolved" /\ calls[c].out.src = "ws"
        /\ calls[d].failure = "wsTimeout"
        /\ ws = "OPEN"

\* C34: the step in which the channel opens sets reconnectAttempts to 0, it
\* stays 0 while the channel is connected, and the reconnect scheduled when a
\* connected channel closes is attempt 1 with the base delay of 1000 ms.
C34_OpenResetsBackoff ==
    /\ [](isConnected => reconnectAttempts = 0)
    /\ [][/\ (ws = "CONNECTING" /\ ws' = "OPEN") => reconnectAttempts' = 0
          /\ (isConnected /\ ~isConnected' /\ reconnectTimers' # reconnectTimers)
                => /\ reconnectAttempts' = 1
                   /\ scheduledDelay' = 1000]_vars

\* C34 witness: the channel is open with the count at 0 after a series of
\* failed attempts long enough for the last delay to have been the cap.
C34_Witness ==
    /\ ws = "OPEN" /\ isConnected
    /\ reconnectAttempts = 0
    /\ scheduledDelay = maxReconnectDelay

\* C35: reconnectAttempts is always within 0 .. 10; every reconnect that is
\* scheduled raises it by one, and it goes down only in the step in which the
\* channel opens, so no more than 10 reconnects are scheduled between two
\* opens.
C35_AttemptsBounded ==
    /\ [](reconnectAttempts \in 0 .. 10)
    /\ [][/\ reconnectTimers' > reconnectTimers
                => /\ reconnectTimers' = reconnectTimers + 1
                   /\ reconnectAttempts' = reconnectAttempts + 1
                   /\ reconnectAttempts' <= 10
          /\ reconnectAttempts' < reconnectAttempts
                => ws = "CONNECTING" /\ ws' = "OPEN" /\ reconnectAttempts' = 0]_vars

\* C35 witness: the tenth reconnect since the last open was scheduled and
\* its attempt failed; none is scheduled any more, without close() having
\* been called.
C35_Witness ==
    /\ reconnectAttempts = 10
    /\ ~closeCalled
    /\ ws = "CLOSED"
    /\ reconnectTimers = 0
    /\ scheduledDelay = maxReconnectDelay

\* C36: the step that handles a ping on an open channel writes exactly one
\* pong to the socket and sets the last-heartbeat time to the ping's
\* timestamp; it changes no call, no registered request and nothing else of
\* the connection, and a watchdog check within 60 s of that timestamp leaves
\* the channel open.
C36_PingAnswered ==
    [][/\ lastPingAge' < lastPingAge
             => /\ lastPingAge' \in PingDelays
                /\ ws = "OPEN" => pongsSent' = 1
                /\ UNCHANGED <<calls, pendingRequests, requestCache, ws, isConnected,
                               isConnecting, reconnectAttempts, reconnectTimers,
                               messageQueue, wsPendingRequests, wsTimers, invoked,
                               keepAlive, wire, sentLog, scheduledDelay>>
       /\ (/\ keepAlive.armed /\ keepAlive.left = 0
           /\ keepAlive'.left = KEEPALIVE_INTERVAL
           /\ lastPingAge <= PING_TIMEOUT)
             => ws' = ws]_vars

\* C36 witness: a ping has just been answered with one pong on a channel
\* that has been open for longer than the watchdog's limit, while a request
\* is registered and waiting.
C36_Witness ==
    /\ ws = "OPEN"
    /\ pongsSent = 1
    /\ lastPingAge = 0
    /\ openAge > PING_TIMEOUT
    /\ \E c \in wsPendingRequests : calls[c].pc = "wsWait"

\* The number of times id c was written to the socket.
TimesWritten(log, c) == Cardinality({i \in DOMAIN log : log[i] = c})

\* C37: a call of batch() has one outer id and its i-th sub-request, counted
\* from 0, has the id made of the outer id and i; when the call is registered
\* it is one entry of the registry and its message has been written to the
\* socket exactly once; a response with the outer id settles that entry once.
C37_BatchOneMessage ==
    /\ [](\A c \in CallIds :
             (calls[c].direct /\ calls[c].pc # "new")
                 => LET message == calls[c].req.body
                    IN  /\ message.id = c
                        /\ \A i \in DOMAIN message.requests :
                               message.requests[i].id = <<c, i - 1>>
                        /\ invoked[c] <= 1)
    /\ [][\A c \in CallIds :
             /\ (calls[c].pc # "wsWait" /\ calls'[c].pc = "wsWait" /\ calls'[c].direct)
                   => /\ c \in wsPendingRequests'
                      /\ TimesWritten(sentLog', c) = 1
             /\ (calls[c].direct /\ c \in wsPendingRequests /\ c \in wire
                    /\ wire' = wire \ {c} /\ ws' = ws)
                   => /\ calls'[c].pc \in {"resolved", "rejected"}
                      /\ calls'[c].out.val \in {Message(c), Data(c), "wsAppError"}
                      /\ invoked'[c] = 1
                      /\ c \notin wsPendingRequests']_vars

\* The place of a transport in the order the specification lists.
SpecifiedRank(transport) ==
    CASE transport = "ws" -> 1
      [] transport = "fetch" -> 2
      [] transport = "h3" -> 3

C39_RejectionKeepsCache ==
    [][(\E c \in CallIds : InFlight(calls[c]) /\ calls'[c].pc = "rejected")
           => requestCache' = requestCache]_vars

\* C39 witness: a write was rejected by fetch after its first transport had
\* failed too, and the cached read of its key is still there.
C39_Witness ==
    \E c \in CallIds, k \in Keys :
        /\ calls[c].pc = "rejected"
        /\ calls[c].out.src = "fetch"
        /\ calls[c].failure # "none"
        /\ calls[c].req = ApiSet(k, "v1")
        /\ CacheHas(requestCache, CacheKey(ApiGet(k)))

====
